---- MODULE Spec2Model ----
(***************************************************************************)
(* Model of src/server/server.js (Shellshock Arena server): one GameRoom,  *)
(* the clients' message handlers, the timers the handlers create and the   *)
(* 60 Hz update loop.                                                      *)
(*                                                                         *)
(* Conventions.                                                            *)
(*  - The model follows one GameRoom object: the one createLobby last      *)
(*    constructed.  createLobby is taken when the registry is empty.       *)
(*  - Coordinates are the integers of the source.  Shots are aimed along   *)
(*    an axis, so cos/sin of the angle are -1, 0 or 1.                     *)
(*  - Wall-clock time is observed at ticks: a tick advances the clock by   *)
(*    the deltaTime it is given; lastShot and createdAt are kept as        *)
(*    elapsed times.  setTimeout callbacks fire at any later step.         *)
(*  - rotation, name, velocity, colour and GameStatistics are not part     *)
(*    of the state.                                                        *)
(***************************************************************************)
EXTENDS Integers, Sequences, FiniteSets, TLC

(* ------------------------------ bounds -------------------------------- *)
NumClients == 2
NumGuests == 3
MaxStartTimers == 2
MaxLeaked == 1
MaxShieldTimers == 2
MaxOvers == 2
MaxShots == 1
DuelShots == 2
ShieldShots == 4
MaxDistance == 110

Clients == 1..NumClients
(* the connections there are: the clients, and those that only knock *)
Guests == 1..NumGuests

(* deltaTime (ms) of a tick; move intents (dx, dy, deltaTime ms);          *)
(* shoot targets; powerup ids sent by clients.  With these inputs the      *)
(* players stay on the row y = 1000: client 1 at x = 200, client 2 at     *)
(* x = 1800 or x = 530, and the target lies between 200 and 530.          *)
TickDeltas == {500}
MoveInputs == {<<-1270, 0, 4>>}
ShootTargets == {<<365, 1000>>}
PowerupInputs == {1, 2, 3, 4}

(* --------------------------- gameConfig ------------------------------- *)
arenaWidth == 2000
arenaHeight == 2000
playerSize == 30
playerSpeed == 250
maxHealth == 100
reloadTime == 1000
projectileSpeed == 600
projectileDamage == 5
projectileSize == 5
laserDamage == 15
explosiveDamage == 20
powerupCost == 20
explosiveRadius == 100
explosionDelay == 400
explosiveSpeed == 450
shieldAbsorption == 20
laserSteps == 100

startPositions == <<[x |-> 200, y |-> 1000], [x |-> 1800, y |-> 1000]>>

coverLayouts ==
  [ center    |-> [x |-> 900,  y |-> 900,  width |-> 200, height |-> 200],
    corridor1 |-> [x |-> 300,  y |-> 400,  width |-> 60,  height |-> 400],
    corridor2 |-> [x |-> 1640, y |-> 400,  width |-> 60,  height |-> 400],
    corridor3 |-> [x |-> 300,  y |-> 1200, width |-> 60,  height |-> 400],
    corridor4 |-> [x |-> 1640, y |-> 1200, width |-> 60,  height |-> 400],
    cover1    |-> [x |-> 600,  y |-> 600,  width |-> 100, height |-> 100],
    cover2    |-> [x |-> 1300, y |-> 600,  width |-> 100, height |-> 100],
    cover3    |-> [x |-> 600,  y |-> 1300, width |-> 100, height |-> 100],
    cover4    |-> [x |-> 1300, y |-> 1300, width |-> 100, height |-> 100],
    wall1     |-> [x |-> 500,  y |-> 200,  width |-> 300, height |-> 60],
    wall2     |-> [x |-> 1200, y |-> 200,  width |-> 300, height |-> 60],
    wall3     |-> [x |-> 500,  y |-> 1740, width |-> 300, height |-> 60],
    wall4     |-> [x |-> 1200, y |-> 1740, width |-> 300, height |-> 60],
    maze1     |-> [x |-> 800,  y |-> 500,  width |-> 60,  height |-> 200],
    maze2     |-> [x |-> 1140, y |-> 500,  width |-> 60,  height |-> 200],
    maze3     |-> [x |-> 800,  y |-> 1300, width |-> 60,  height |-> 200],
    maze4     |-> [x |-> 1140, y |-> 1300, width |-> 60,  height |-> 200] ]

AllCovers == DOMAIN coverLayouts

VARIABLES
  conn,           \* client -> "open" | "closed"  (the WebSocket)
  currentRoom,    \* client -> BOOLEAN: the handler's currentRoom is the room
  gameRooms,      \* BOOLEAN: the registry holds the room's code
  players,        \* the room's players Map: its keys in insertion order
  pl,             \* the room's players Map: key -> player object
  gameState,      \* [started, covers, projectiles]
  updateInterval, \* BOOLEAN: room.updateInterval holds a live interval
  leaked,         \* live intervals no field refers to any more
  matchEndTime,   \* BOOLEAN: room.matchEndTime is set
  rematchVotes,   \* the room's rematchVotes Set
  startTimers,    \* pending setTimeout(() => joinRoom.startGame(), 1000)
  shieldTimers,   \* client -> pending shield-expiry timeouts of its player
  overs,          \* gameOver messages broadcast since the last gameStart
  shots,          \* shoot intents accepted since the initial state
  reply,          \* outcome of the intent last handled
  intent          \* the intent last handled, in the specifications that record it

vars == << conn, currentRoom, gameRooms, players, pl, gameState,
           updateInterval, leaked, matchEndTime, rematchVotes,
           startTimers, shieldTimers, overs, shots, reply, intent >>

(* ------------------------------ helpers ------------------------------- *)
Min(a, b) == IF a <= b THEN a ELSE b
Max(a, b) == IF a >= b THEN a ELSE b
Sq(a) == a * a

Range(s) == {s[i] : i \in 1..Len(s)}

RECURSIVE Without(_, _)
Without(s, e) ==
  IF s = <<>> THEN <<>>
  ELSE IF Head(s) = e THEN Without(Tail(s), e)
       ELSE <<Head(s)>> \o Without(Tail(s), e)

NoReply == "none"
NoIntent == [type |-> "none", client |-> 0, arg |-> 0]

(* the mutable fields of the room an operation works on *)
Room ==
  [ players |-> players, pl |-> pl, gameState |-> gameState,
    updateInterval |-> updateInterval, leaked |-> leaked,
    matchEndTime |-> matchEndTime, rematchVotes |-> rematchVotes,
    shieldTimers |-> shieldTimers, overs |-> overs ]

SetRoom(r) ==
  /\ players' = r.players
  /\ pl' = r.pl
  /\ gameState' = r.gameState
  /\ updateInterval' = r.updateInterval
  /\ leaked' = r.leaked
  /\ matchEndTime' = r.matchEndTime
  /\ rematchVotes' = r.rematchVotes
  /\ shieldTimers' = r.shieldTimers
  /\ overs' = r.overs

SetRoomNow(r) ==
  /\ players = r.players
  /\ pl = r.pl
  /\ gameState = r.gameState
  /\ updateInterval = r.updateInterval
  /\ leaked = r.leaked
  /\ matchEndTime = r.matchEndTime
  /\ rematchVotes = r.rematchVotes
  /\ shieldTimers = r.shieldTimers
  /\ overs = r.overs

(* ------------------------- GameRoom: lifecycle ------------------------ *)
InitialCovers == AllCovers

NewPlayer(playerIndex) ==
  [ x |-> startPositions[playerIndex + 1].x,
    y |-> startPositions[playerIndex + 1].y,
    health |-> maxHealth,
    points |-> 0,
    reloading |-> FALSE,
    sinceShot |-> 0,
    shield |-> 0,
    usedPowerups |-> {},
    nextShotType |-> "none" ]

NewRoom ==
  [ players |-> <<>>, pl |-> <<>>,
    gameState |-> [started |-> FALSE, covers |-> InitialCovers, projectiles |-> <<>>],
    updateInterval |-> FALSE, leaked |-> 0,
    matchEndTime |-> FALSE, rematchVotes |-> {},
    shieldTimers |-> [c \in Guests |-> 0], overs |-> <<>> ]

(* addPlayer: nothing is added to a room of two *)
addPlayer(r, id) ==
  IF Len(r.players) >= 2 THEN r
  ELSE [r EXCEPT !.players = Append(r.players, id),
                 !.pl = [c \in (DOMAIN r.pl) \cup {id} |->
                           IF c = id THEN NewPlayer(Len(r.players)) ELSE r.pl[c]]]

(* removePlayer: the interval is cleared whatever the phase.  The shield  *)
(* timeouts of the removed player object are dropped with it: their       *)
(* closure holds that object, which no Map entry refers to any more.      *)
removePlayer(r, id) ==
  [r EXCEPT !.players = Without(r.players, id),
            !.pl = [c \in (DOMAIN r.pl) \ {id} |-> r.pl[c]],
            !.updateInterval = FALSE,
            !.shieldTimers = [r.shieldTimers EXCEPT ![id] = 0]]

(* startGame without the test for two players *)
startGameAlone(r) ==
  [r EXCEPT !.gameState = [r.gameState EXCEPT !.started = TRUE,
                                              !.covers = InitialCovers],
            !.rematchVotes = {},
            !.overs = <<>>,
            !.leaked = IF r.updateInterval THEN Min(r.leaked + 1, MaxLeaked)
                       ELSE r.leaked,
            !.updateInterval = TRUE]

(* startGame: the players are left as they are; an interval already held  *)
(* by updateInterval is overwritten without being cleared.                *)
startGame(r) ==
  IF Len(r.players) # 2 THEN r
  ELSE [r EXCEPT !.gameState = [r.gameState EXCEPT !.started = TRUE,
                                                   !.covers = InitialCovers],
                 !.rematchVotes = {},
                 !.overs = <<>>,
                 !.leaked = IF r.updateInterval THEN Min(r.leaked + 1, MaxLeaked)
                            ELSE r.leaked,
                 !.updateInterval = TRUE]

(* endGame(winnerId): the gameOver message carries the winner and the     *)
(* players' health (finalState); cause records who called endGame         *)
endGame(r, winnerId, cause) ==
  [r EXCEPT !.updateInterval = FALSE,
            !.matchEndTime = TRUE,
            !.overs = IF Len(r.overs) < MaxOvers
                      THEN Append(r.overs,
                                  [winner |-> winnerId,
                                   health |-> [c \in DOMAIN r.pl |-> r.pl[c].health],
                                   cause |-> cause])
                      ELSE r.overs,
            !.gameState = [r.gameState EXCEPT !.started = FALSE]]

(* --------------------------- geometry kernel -------------------------- *)
checkProjectileCoverCollision(projectile, cover) ==
  /\ projectile.x >= cover.x
  /\ projectile.x <= cover.x + cover.width
  /\ projectile.y >= cover.y
  /\ projectile.y <= cover.y + cover.height

(* distance <= size/2 + projectile.size, compared as squares *)
checkProjectilePlayerCollision(projectile, player) ==
  Sq(projectile.x - player.x) + Sq(projectile.y - player.y)
    <= Sq(playerSize \div 2 + projectileSize)

checkRectCollision(rect1, rect2) ==
  /\ rect1.x < rect2.x + rect2.width
  /\ rect1.x + rect1.width > rect2.x
  /\ rect1.y < rect2.y + rect2.height
  /\ rect1.y + rect1.height > rect2.y

(* ---------------------------- combat ---------------------------------- *)
(* hitPlayer without Math.max(0, player.health) *)
hitPlayerUnclamped(r, playerId, damage, attackerId) ==
  IF playerId \notin DOMAIN r.pl THEN r
  ELSE
    LET player == r.pl[playerId]
        absorbed == IF player.shield > 0 THEN Min(damage, player.shield) ELSE 0
        actualDamage == damage - absorbed
        health == player.health - actualDamage
        hit == [r.pl EXCEPT ![playerId].shield = @ - absorbed,
                            ![playerId].health = health]
        paid == IF attackerId \in DOMAIN r.pl /\ attackerId # playerId
                THEN [hit EXCEPT ![attackerId].points = @ + actualDamage]
                ELSE hit
        r1 == [r EXCEPT !.pl = paid]
    IN IF health <= 0
       THEN endGame(r1, attackerId,
                    [kind |-> "hit", target |-> playerId, attacker |-> attackerId])
       ELSE r1

(* hitPlayer without the shield: the whole damage is taken from the health *)
hitPlayerUnshielded(r, playerId, damage, attackerId) ==
  IF playerId \notin DOMAIN r.pl THEN r
  ELSE
    LET player == r.pl[playerId]
        absorbed == 0
        actualDamage == damage - absorbed
        health == Max(0, player.health - actualDamage)
        hit == [r.pl EXCEPT ![playerId].shield = @ - absorbed,
                            ![playerId].health = health]
        paid == IF attackerId \in DOMAIN r.pl /\ attackerId # playerId
                THEN [hit EXCEPT ![attackerId].points = @ + actualDamage]
                ELSE hit
        r1 == [r EXCEPT !.pl = paid]
    IN IF health <= 0
       THEN endGame(r1, attackerId,
                    [kind |-> "hit", target |-> playerId, attacker |-> attackerId])
       ELSE r1

(* hitPlayer(playerId, damage, attackerId) *)
hitPlayer(r, playerId, damage, attackerId) ==
  IF playerId \notin DOMAIN r.pl THEN r
  ELSE
    LET player == r.pl[playerId]
        absorbed == IF player.shield > 0 THEN Min(damage, player.shield) ELSE 0
        actualDamage == damage - absorbed
        health == Max(0, player.health - actualDamage)
        hit == [r.pl EXCEPT ![playerId].shield = @ - absorbed,
                            ![playerId].health = health]
        paid == IF attackerId \in DOMAIN r.pl /\ attackerId # playerId
                THEN [hit EXCEPT ![attackerId].points = @ + actualDamage]
                ELSE hit
        r1 == [r EXCEPT !.pl = paid]
    IN IF health <= 0
       THEN endGame(r1, attackerId,
                    [kind |-> "hit", target |-> playerId, attacker |-> attackerId])
       ELSE r1

(* Math.floor(20 * (1 - distance / radius)) for distance <= radius, from  *)
(* the squared distance.  In IEEE doubles 1 - 80/100 and 1 - 90/100 fall  *)
(* just below 0.2 and 0.1, so the floor is 3 and 1 there.                 *)
explosionDamage(d2) ==
  IF d2 = Sq(80) THEN 3
  ELSE IF d2 = Sq(90) THEN 1
  ELSE CHOOSE k \in 0..explosiveDamage :
         /\ d2 * Sq(explosiveDamage) <= Sq(explosiveRadius * (explosiveDamage - k))
         /\ \A j \in (k + 1)..explosiveDamage :
              d2 * Sq(explosiveDamage) > Sq(explosiveRadius * (explosiveDamage - j))

(* the loop of explode over the players Map, from its i-th key on *)
RECURSIVE explodePlayers(_, _, _, _, _)
explodePlayers(r, i, x, y, ownerId) ==
  IF i > Len(r.players) THEN r
  ELSE
    LET id == r.players[i]
        d2 == Sq(r.pl[id].x - x) + Sq(r.pl[id].y - y)
        damage == explosionDamage(d2)
        r1 == IF d2 <= Sq(explosiveRadius) /\ damage > 0
              THEN hitPlayer(r, id, damage, ownerId)
              ELSE r
    IN explodePlayers(r1, i + 1, x, y, ownerId)

(* a cover goes when its closest point is nearer than the radius *)
coverDestroyed(cover, x, y) ==
  LET closestX == Max(cover.x, Min(x, cover.x + cover.width))
      closestY == Max(cover.y, Min(y, cover.y + cover.height))
  IN Sq(x - closestX) + Sq(y - closestY) < Sq(explosiveRadius)

explode(r, x, y, ownerId) ==
  LET r1 == explodePlayers(r, 1, x, y, ownerId)
  IN [r1 EXCEPT !.gameState.covers =
        {cv \in @ : ~coverDestroyed(coverLayouts[cv], x, y)}]

(* --------------------------- update (tick) ---------------------------- *)
(* first key of the players Map, from the i-th on, that is not the owner  *)
(* and collides with the projectile; 0 when there is none                 *)
RECURSIVE collidingPlayer(_, _, _)
collidingPlayer(r, proj, i) ==
  IF i > Len(r.players) THEN 0
  ELSE IF /\ r.players[i] # proj.ownerId
          /\ checkProjectilePlayerCollision(proj, r.pl[r.players[i]])
       THEN i
       ELSE collidingPlayer(r, proj, i + 1)

(* the filter callback of update for one projectile: the room after it    *)
(* and whether the projectile stays, with its new position                *)
(* the step of the filter with the projectile kept after its fuse has   *)
(* set it off                                                          *)
stepProjectileKept(r, p, deltaTime) ==
  LET proj == [p EXCEPT !.x = @ + (p.vx * deltaTime) \div 1000,
                        !.y = @ + (p.vy * deltaTime) \div 1000,
                        !.age = @ + deltaTime]
      hitIndex == collidingPlayer(r, proj, 1)
      exploding == [room |-> explode(r, proj.x, proj.y, proj.ownerId),
                    keep |-> FALSE, proj |-> proj, exploded |-> TRUE]
  IN IF \/ proj.x < 0 \/ proj.x > arenaWidth
        \/ proj.y < 0 \/ proj.y > arenaHeight
     THEN [room |-> r, keep |-> FALSE, proj |-> proj, exploded |-> FALSE]
     ELSE IF \E cv \in r.gameState.covers :
               checkProjectileCoverCollision(proj, coverLayouts[cv])
     THEN IF proj.type = "explosive" THEN exploding
          ELSE [room |-> r, keep |-> FALSE, proj |-> proj, exploded |-> FALSE]
     ELSE IF hitIndex # 0
     THEN IF proj.type = "explosive" THEN exploding
          ELSE [room |-> hitPlayer(r, r.players[hitIndex], proj.damage, proj.ownerId),
                keep |-> FALSE, proj |-> proj, exploded |-> FALSE]
     ELSE IF proj.type = "explosive" /\ proj.age > explosionDelay
     THEN [exploding EXCEPT !.keep = TRUE]
     ELSE [room |-> r, keep |-> TRUE, proj |-> proj, exploded |-> FALSE]

(* the callback of projectiles.filter (329-375) for one projectile; the  *)
(* flag proj.exploded is set only where the callback returns false       *)
stepProjectile(r, p, deltaTime) ==
  LET proj == [p EXCEPT !.x = @ + (p.vx * deltaTime) \div 1000,
                        !.y = @ + (p.vy * deltaTime) \div 1000,
                        !.age = @ + deltaTime]
      hitIndex == collidingPlayer(r, proj, 1)
      exploding == [room |-> explode(r, proj.x, proj.y, proj.ownerId),
                    keep |-> FALSE, proj |-> proj, exploded |-> TRUE]
  IN IF \/ proj.x < 0 \/ proj.x > arenaWidth
        \/ proj.y < 0 \/ proj.y > arenaHeight
     THEN [room |-> r, keep |-> FALSE, proj |-> proj, exploded |-> FALSE]
     ELSE IF \E cv \in r.gameState.covers :
               checkProjectileCoverCollision(proj, coverLayouts[cv])
     THEN IF proj.type = "explosive" THEN exploding
          ELSE [room |-> r, keep |-> FALSE, proj |-> proj, exploded |-> FALSE]
     ELSE IF hitIndex # 0
     THEN IF proj.type = "explosive" THEN exploding
          ELSE [room |-> hitPlayer(r, r.players[hitIndex], proj.damage, proj.ownerId),
                keep |-> FALSE, proj |-> proj, exploded |-> FALSE]
     ELSE IF proj.type = "explosive" /\ proj.age > explosionDelay
     THEN exploding
     ELSE [room |-> r, keep |-> TRUE, proj |-> proj, exploded |-> FALSE]

(* projectiles.filter(...): the projectiles in order, each against the    *)
(* room as the earlier ones left it                                       *)
RECURSIVE projectilePass(_, _, _, _)
projectilePass(r, todo, kept, deltaTime) ==
  IF todo = <<>> THEN [r EXCEPT !.gameState.projectiles = kept]
  ELSE LET res == stepProjectile(r, Head(todo), deltaTime)
       IN projectilePass(res.room, Tail(todo),
                         IF res.keep THEN Append(kept, res.proj) ELSE kept,
                         deltaTime)

(* what the filter does with each projectile of the list, in order: the  *)
(* projectile as moved, whether it stays, whether explode was called      *)
RECURSIVE projectileOutcomes(_, _, _)
projectileOutcomes(r, todo, deltaTime) ==
  IF todo = <<>> THEN <<>>
  ELSE LET res == stepProjectile(r, Head(todo), deltaTime)
       IN << [proj |-> res.proj, keep |-> res.keep, exploded |-> res.exploded] >>
          \o projectileOutcomes(res.room, Tail(todo), deltaTime)

(* the reload pass of update *)
reloadPass(r, deltaTime) ==
  [r EXCEPT !.pl = [c \in DOMAIN r.pl |->
     IF r.pl[c].reloading /\ r.pl[c].sinceShot + deltaTime >= reloadTime
     THEN [r.pl[c] EXCEPT !.reloading = FALSE, !.sinceShot = 0]
     ELSE IF r.pl[c].reloading
          THEN [r.pl[c] EXCEPT !.sinceShot = @ + deltaTime]
          ELSE r.pl[c]]]

update(r, deltaTime) ==
  reloadPass(projectilePass(r, r.gameState.projectiles, <<>>, deltaTime), deltaTime)

(* ------------------------ sight and snapshots ------------------------- *)
(* lineIntersectsLine: t and u are quotients by denom, tested against     *)
(* 0 and 1 by the signs of their numerators                               *)
between0and1(num, denom) ==
  IF denom > 0 THEN 0 <= num /\ num <= denom ELSE denom <= num /\ num <= 0

lineIntersectsLine(x1, y1, x2, y2, x3, y3, x4, y4) ==
  LET denom == (x1 - x2) * (y3 - y4) - (y1 - y2) * (x3 - x4)
      t == (x1 - x3) * (y3 - y4) - (y1 - y3) * (x3 - x4)
      u == 0 - ((x1 - x2) * (y1 - y3) - (y1 - y2) * (x1 - x3))
  IN denom # 0 /\ between0and1(t, denom) /\ between0and1(u, denom)

lineIntersectsRect(x1, y1, x2, y2, rect) ==
  \/ lineIntersectsLine(x1, y1, x2, y2, rect.x, rect.y, rect.x + rect.width, rect.y)
  \/ lineIntersectsLine(x1, y1, x2, y2, rect.x, rect.y, rect.x, rect.y + rect.height)
  \/ lineIntersectsLine(x1, y1, x2, y2, rect.x + rect.width, rect.y,
                        rect.x + rect.width, rect.y + rect.height)
  \/ lineIntersectsLine(x1, y1, x2, y2, rect.x, rect.y + rect.height,
                        rect.x + rect.width, rect.y + rect.height)

checkLineOfSight(covers, x1, y1, x2, y2) ==
  \A cv \in covers : ~lineIntersectsRect(x1, y1, x2, y2, coverLayouts[cv])

(* hasLineOfSight of update for a room of two, from the covers given *)
hasLineOfSight(r, covers) ==
  LET player1 == r.pl[r.players[1]]
      player2 == r.pl[r.players[2]]
  IN checkLineOfSight(covers, player1.x, player1.y, player2.x, player2.y)

(* visibleToEnemy as update writes it at its start (313-326).  The field  *)
(* is read only by the snapshot loop of the same update and only for the  *)
(* other of two players, so it is a value of the tick, not of the room.   *)
visibleToEnemy(r) == hasLineOfSight(r, r.gameState.covers)

(* the entry of a player in a snapshot: its own, an enemy in sight, an    *)
(* enemy out of sight                                                     *)
ownEntry(player) ==
  [ x |-> player.x, y |-> player.y, health |-> player.health, shield |-> player.shield,
    reloading |-> player.reloading, points |-> player.points,
    usedPowerups |-> player.usedPowerups, visible |-> TRUE ]

enemyEntry(player) ==
  [ x |-> player.x, y |-> player.y, health |-> player.health, shield |-> player.shield,
    reloading |-> player.reloading, visible |-> TRUE ]

hiddenEntry == [ visible |-> FALSE ]

(* the entries always filled in as for an enemy in sight *)
snapshotPlayersOpen(before, after, id) ==
  [ o \in DOMAIN after.pl |->
      IF o = id THEN ownEntry(after.pl[o]) ELSE enemyEntry(after.pl[o]) ]

(* state.players of the gameState message to player id (393-430): before  *)
(* is the room at the start of the update, after the room at its end      *)
snapshotPlayers(before, after, id) ==
  [ o \in DOMAIN after.pl |->
      IF o = id THEN ownEntry(after.pl[o])
      ELSE IF visibleToEnemy(before) THEN enemyEntry(after.pl[o])
      ELSE hiddenEntry ]

(* the gameState message to player id (432-445) *)
gameStateMessage(before, after, id) ==
  [ players |-> snapshotPlayers(before, after, id),
    projectiles |-> [ i \in DOMAIN after.gameState.projectiles |->
                        [ x |-> after.gameState.projectiles[i].x,
                          y |-> after.gameState.projectiles[i].y,
                          type |-> after.gameState.projectiles[i].type ] ],
    covers |-> after.gameState.covers ]

(* the gameState messages of one update, by receiver: update sends them   *)
(* whatever gameState.started is                                          *)
gameStateMessages(before, after) ==
  [ id \in DOMAIN after.pl |-> gameStateMessage(before, after, id) ]

(* ------------------------------ shooting ------------------------------ *)
(* cos and sin of atan2(targetY - y, targetX - x) for a target on the     *)
(* player's row or column (atan2(0, 0) = 0)                               *)
AxisAligned(player, targetX, targetY) == targetX = player.x \/ targetY = player.y

aimCos(player, targetX, targetY) ==
  IF targetY = player.y THEN (IF targetX >= player.x THEN 1 ELSE -1) ELSE 0

aimSin(player, targetX, targetY) ==
  IF targetY = player.y THEN 0 ELSE (IF targetY > player.y THEN 1 ELSE -1)

getProjectileDamage(type) ==
  CASE type = "laser" -> laserDamage
    [] type = "explosive" -> explosiveDamage
    [] OTHER -> projectileDamage

(* The laser samples a0 + c * t for t = i * stepDistance, c in {-1,0,1};  *)
(* stepDistance = sqrt(2000^2 + 2000^2) / 100, so t^2 = 800 * i^2 and t   *)
(* is irrational: comparisons with integers are made on squares.          *)
stepSq(i) == ((Sq(arenaWidth) + Sq(arenaHeight)) \div Sq(laserSteps)) * Sq(i)

sampleBelow(a0, c, i, v) ==
  CASE c = 0 -> a0 < v
    [] c = 1 -> v - a0 > 0 /\ stepSq(i) < Sq(v - a0)
    [] OTHER -> a0 - v < 0 \/ stepSq(i) > Sq(a0 - v)

sampleAbove(a0, c, i, v) ==
  CASE c = 0 -> a0 > v
    [] c = 1 -> v - a0 < 0 \/ stepSq(i) > Sq(v - a0)
    [] OTHER -> a0 - v > 0 /\ stepSq(i) < Sq(a0 - v)

sampleOutside(player, cx, cy, i) ==
  \/ sampleBelow(player.x, cx, i, 0) \/ sampleAbove(player.x, cx, i, arenaWidth)
  \/ sampleBelow(player.y, cy, i, 0) \/ sampleAbove(player.y, cy, i, arenaHeight)

sampleInCover(player, cx, cy, i, cover) ==
  /\ ~sampleBelow(player.x, cx, i, cover.x)
  /\ ~sampleAbove(player.x, cx, i, cover.x + cover.width)
  /\ ~sampleBelow(player.y, cy, i, cover.y)
  /\ ~sampleAbove(player.y, cy, i, cover.y + cover.height)

(* floor of t = sqrt(stepSq(i)); t lies strictly between it and the next  *)
(* integer                                                                *)
stepFloor(i) == CHOOSE T \in (28 * i)..(29 * i) : Sq(T) <= stepSq(i) /\ stepSq(i) < Sq(T + 1)

(* distance(sample, target) <= size / 2: with m the target's offset along *)
(* the ray and q its offset across, (t - m)^2 + q^2 <= 15^2.  For q = 0   *)
(* this is -15 <= t - m <= 15; for |q| > 15 it is false.  The model sends *)
(* laser shots only where every other player is in one of the two cases.  *)
rayAcross(player, cx, cy, target) ==
  cy * (target.x - player.x) - cx * (target.y - player.y)

sampleHits(player, cx, cy, i, target) ==
  LET m == cx * (target.x - player.x) + cy * (target.y - player.y)
      q == rayAcross(player, cx, cy, target)
  IN /\ q = 0
     /\ stepFloor(i) - m >= -(playerSize \div 2)
     /\ stepFloor(i) - m + 1 <= playerSize \div 2

laserExact(r, id, cx, cy) ==
  \A c \in DOMAIN r.pl :
     c # id => \/ rayAcross(r.pl[id], cx, cy, r.pl[c]) = 0
               \/ Sq(rayAcross(r.pl[id], cx, cy, r.pl[c])) > Sq(playerSize \div 2)

RECURSIVE laserTargetAt(_, _, _, _, _, _)
laserTargetAt(r, id, cx, cy, i, j) ==
  IF j > Len(r.players) THEN 0
  ELSE IF r.players[j] # id /\ sampleHits(r.pl[id], cx, cy, i, r.pl[r.players[j]])
       THEN j
       ELSE laserTargetAt(r, id, cx, cy, i, j + 1)

(* the raycast of shootLaser from step i on: the index in the players Map *)
(* of the player hit, 0 when the ray ends without a hit                   *)
RECURSIVE laserScan(_, _, _, _, _)
laserScan(r, id, cx, cy, i) ==
  IF i > laserSteps THEN 0
  ELSE IF sampleOutside(r.pl[id], cx, cy, i) THEN 0
  ELSE IF \E cv \in r.gameState.covers :
            sampleInCover(r.pl[id], cx, cy, i, coverLayouts[cv]) THEN 0
  ELSE IF laserTargetAt(r, id, cx, cy, i, 1) # 0
       THEN laserTargetAt(r, id, cx, cy, i, 1)
       ELSE laserScan(r, id, cx, cy, i + 1)

shootLaser(r, id, cx, cy) ==
  LET hitIndex == laserScan(r, id, cx, cy, 1)
  IN IF hitIndex = 0 THEN r
     ELSE hitPlayer(r, r.players[hitIndex], laserDamage, id)

(* handlePlayerShoot for a player who is present and not reloading *)
handlePlayerShoot(r, playerId, targetX, targetY) ==
  LET player == r.pl[playerId]
      powerupType == player.nextShotType
      cx == aimCos(player, targetX, targetY)
      cy == aimSin(player, targetX, targetY)
      speed == IF powerupType = "explosive" THEN explosiveSpeed ELSE projectileSpeed
      r1 == [r EXCEPT !.pl[playerId].nextShotType = "none",
                      !.pl[playerId].sinceShot = 0,
                      !.pl[playerId].reloading = TRUE]
      projectile == [ ownerId |-> playerId,
                      x |-> player.x + cx * playerSize,
                      y |-> player.y + cy * playerSize,
                      vx |-> cx * speed,
                      vy |-> cy * speed,
                      damage |-> getProjectileDamage(powerupType),
                      type |-> powerupType,
                      age |-> 0 ]
  IN IF powerupType = "laser"
     THEN shootLaser(r1, playerId, cx, cy)
     ELSE [r1 EXCEPT !.gameState.projectiles = Append(@, projectile)]

(* ------------------------------ movement ------------------------------ *)
playerRect(x, y) ==
  [x |-> x - playerSize \div 2, y |-> y - playerSize \div 2,
   width |-> playerSize, height |-> playerSize]

blocked(r, x, y) ==
  \E cv \in r.gameState.covers : checkRectCollision(playerRect(x, y), coverLayouts[cv])

(* handlePlayerMove(playerId, dx, dy, deltaTime), deltaTime in ms *)
handlePlayerMove(r, playerId, dx, dy, deltaTime) ==
  LET player == r.pl[playerId]
      halfSize == playerSize \div 2
      newX == player.x + (dx * playerSpeed * deltaTime) \div 1000
      newY == player.y + (dy * playerSpeed * deltaTime) \div 1000
      x1 == IF /\ newX - halfSize >= 0 /\ newX + halfSize <= arenaWidth
               /\ ~blocked(r, newX, player.y)
            THEN newX ELSE player.x
      y1 == IF /\ newY - halfSize >= 0 /\ newY + halfSize <= arenaHeight
               /\ ~blocked(r, x1, newY)
            THEN newY ELSE player.y
  IN [r EXCEPT !.pl[playerId].x = x1, !.pl[playerId].y = y1]

(* ------------------------------ powerups ------------------------------ *)
(* handlePowerup(playerId, powerupNum) for a player who is present: the   *)
(* room after it and what it returns.  Points are deducted and the id is  *)
(* marked used before the switch on the id.                               *)
(* handlePowerup without the check of the points against the cost *)
handlePowerupUnpaid(r, playerId, powerupNum) ==
  LET player == r.pl[playerId]
      paid == [r EXCEPT !.pl[playerId].points = @ - powerupCost,
                        !.pl[playerId].usedPowerups = @ \cup {powerupNum}]
  IN IF powerupNum \in player.usedPowerups
     THEN [room |-> r, result |-> "powerup:used"]
     ELSE CASE powerupNum = 1 ->
                 [room |-> [paid EXCEPT !.pl[playerId].nextShotType = "laser"],
                  result |-> "powerup:ok"]
            [] powerupNum = 2 ->
                 [room |-> [paid EXCEPT !.pl[playerId].nextShotType = "explosive"],
                  result |-> "powerup:ok"]
            [] powerupNum = 3 ->
                 [room |-> [paid EXCEPT !.pl[playerId].shield = shieldAbsorption,
                                        !.shieldTimers[playerId] =
                                            Min(@ + 1, MaxShieldTimers)],
                  result |-> "powerup:ok"]
            [] OTHER -> [room |-> paid, result |-> "powerup:failed"]

(* handlePowerup without the check of the powerups already used *)
handlePowerupAgain(r, playerId, powerupNum) ==
  LET player == r.pl[playerId]
      paid == [r EXCEPT !.pl[playerId].points = @ - powerupCost,
                        !.pl[playerId].usedPowerups = @ \cup {powerupNum}]
  IN IF player.points < powerupCost
     THEN [room |-> r, result |-> "powerup:points"]
     ELSE CASE powerupNum = 1 ->
                 [room |-> [paid EXCEPT !.pl[playerId].nextShotType = "laser"],
                  result |-> "powerup:ok"]
            [] powerupNum = 2 ->
                 [room |-> [paid EXCEPT !.pl[playerId].nextShotType = "explosive"],
                  result |-> "powerup:ok"]
            [] powerupNum = 3 ->
                 [room |-> [paid EXCEPT !.pl[playerId].shield = shieldAbsorption,
                                        !.shieldTimers[playerId] =
                                            Min(@ + 1, MaxShieldTimers)],
                  result |-> "powerup:ok"]
            [] OTHER -> [room |-> paid, result |-> "powerup:failed"]

(* handlePowerup (636-686) *)
handlePowerup(r, playerId, powerupNum) ==
  LET player == r.pl[playerId]
      paid == [r EXCEPT !.pl[playerId].points = @ - powerupCost,
                        !.pl[playerId].usedPowerups = @ \cup {powerupNum}]
  IN IF powerupNum \in player.usedPowerups
     THEN [room |-> r, result |-> "powerup:used"]
     ELSE IF player.points < powerupCost
     THEN [room |-> r, result |-> "powerup:points"]
     ELSE CASE powerupNum = 1 ->
                 [room |-> [paid EXCEPT !.pl[playerId].nextShotType = "laser"],
                  result |-> "powerup:ok"]
            [] powerupNum = 2 ->
                 [room |-> [paid EXCEPT !.pl[playerId].nextShotType = "explosive"],
                  result |-> "powerup:ok"]
            [] powerupNum = 3 ->
                 [room |-> [paid EXCEPT !.pl[playerId].shield = shieldAbsorption,
                                        !.shieldTimers[playerId] =
                                            Min(@ + 1, MaxShieldTimers)],
                  result |-> "powerup:ok"]
            [] OTHER -> [room |-> paid, result |-> "powerup:failed"]

(* ------------------------------- rematch ------------------------------ *)
(* the reset of handleRematchVote: the players by their index in the Map  *)
resetPlayers(r) ==
  [r EXCEPT !.pl = [c \in DOMAIN r.pl |->
     LET index == CHOOSE i \in 1..Len(r.players) : r.players[i] = c
     IN [r.pl[c] EXCEPT !.x = startPositions[index].x,
                        !.y = startPositions[index].y,
                        !.health = maxHealth,
                        !.points = 0,
                        !.shield = 0,
                        !.usedPowerups = {},
                        !.nextShotType = "none",
                        !.reloading = FALSE,
                        !.sinceShot = 0]],
            !.gameState.projectiles = <<>>]

(* handleRematchVote(playerId): the room after it and what it returns *)
handleRematchVote(r, playerId) ==
  IF ~r.gameState.started \/ ~r.matchEndTime
  THEN [room |-> r, result |-> "vote:error"]
  ELSE LET voted == [r EXCEPT !.rematchVotes = @ \cup {playerId}]
       IN IF Cardinality(voted.rematchVotes) = 2
          THEN [room |-> startGame(resetPlayers(voted)), result |-> "vote:ok"]
          ELSE [room |-> voted, result |-> "vote:ok"]

(* ------------------------------ the server ---------------------------- *)
(* the server after start-up: no connection has sent anything *)
InitServer ==
  /\ conn = [c \in Guests |-> "open"]
  /\ currentRoom = [c \in Guests |-> FALSE]
  /\ gameRooms = FALSE
  /\ SetRoomNow(NewRoom)
  /\ startTimers = 0
  /\ shots = 0
  /\ reply = NoReply
  /\ intent = NoIntent

(* A match late in its course: client 1 created the room, client 2 joined, *)
(* the start timeout fired, client 2 moved by dx = -1270 to (530, 1000),   *)
(* and each player has hit the other with 19 normal projectiles            *)
(* (19 * 5 = 95 damage and 95 points each); all projectiles have landed    *)
(* and both reloads have completed.  The handlers of this module lead      *)
(* from InitServer to this room in 80 steps (createLobby, joinLobby, the   *)
(* start timeout, the move, then 19 rounds of shoot, shoot, tick, tick).   *)
LateMatch ==
  LET r0 == startGame(addPlayer(addPlayer(NewRoom, 1), 2))
      r1 == handlePlayerMove(r0, 2, -1270, 0, 4)
  IN [r1 EXCEPT !.pl = [c \in DOMAIN r1.pl |->
        [r1.pl[c] EXCEPT !.health = maxHealth - 19 * projectileDamage,
                         !.points = 19 * projectileDamage]]]

InitLateMatch ==
  /\ conn = [c \in Guests |-> "open"]
  /\ currentRoom = [c \in Guests |-> c \in {1, 2}]
  /\ gameRooms = TRUE
  /\ SetRoomNow(LateMatch)
  /\ startTimers = 0
  /\ shots = 0
  /\ reply = NoReply
  /\ intent = NoIntent

Init == InitServer \/ InitLateMatch

(* case 'createLobby', with no room registered: a new GameRoom; the       *)
(* timers of the room before it belong to that object and are let go      *)
CreateLobby(c) ==
  /\ conn[c] = "open" /\ ~currentRoom[c] /\ ~gameRooms
  /\ SetRoom(addPlayer(NewRoom, c))
  /\ gameRooms' = TRUE
  /\ currentRoom' = [currentRoom EXCEPT ![c] = TRUE]
  /\ startTimers' = 0
  /\ reply' = NoReply
  /\ UNCHANGED << conn, shots >>

(* case 'createLobby' by a connection outside the room while the room is  *)
(* registered: generateLobbyCode draws six random characters and may draw *)
(* the room's code again; gameRooms.set then replaces the room's entry.   *)
(* The connection is from then on in a room of its own ("elsewhere").     *)
CreateLobbyBeside(c, sameCode) ==
  /\ conn[c] = "open" /\ ~currentRoom[c] /\ gameRooms
  /\ conn' = [conn EXCEPT ![c] = "elsewhere"]
  /\ gameRooms' = ~sameCode
  /\ reply' = NoReply
  /\ UNCHANGED << currentRoom, players, pl, gameState, updateInterval, leaked,
                  matchEndTime, rematchVotes, startTimers, shieldTimers, overs, shots >>

(* joinLobby without the test for a full room *)
JoinLobbyUnchecked(c) ==
  /\ conn[c] = "open"
  /\ IF currentRoom[c] \/ ~gameRooms
     THEN /\ reply' = "join:error"
          /\ UNCHANGED << currentRoom, players, pl, gameState, updateInterval, leaked,
                          matchEndTime, rematchVotes, startTimers, shieldTimers, overs >>
     ELSE /\ Len(players) = 1 => startTimers < MaxStartTimers
          /\ SetRoom(addPlayer(Room, c))
          /\ currentRoom' = [currentRoom EXCEPT ![c] = TRUE]
          /\ startTimers' = IF Len(players) = 1 THEN startTimers + 1 ELSE startTimers
          /\ reply' = NoReply
  /\ UNCHANGED << conn, gameRooms, shots >>

(* case 'joinLobby' *)
JoinLobby(c) ==
  /\ conn[c] = "open"
  /\ IF currentRoom[c] \/ ~gameRooms \/ Len(players) >= 2
     THEN /\ reply' = "join:error"
          /\ UNCHANGED << currentRoom, players, pl, gameState, updateInterval, leaked,
                          matchEndTime, rematchVotes, startTimers, shieldTimers, overs >>
     ELSE /\ Len(players) = 1 => startTimers < MaxStartTimers
          /\ SetRoom(addPlayer(Room, c))
          /\ currentRoom' = [currentRoom EXCEPT ![c] = TRUE]
          /\ startTimers' = IF Len(players) = 1 THEN startTimers + 1 ELSE startTimers
          /\ reply' = NoReply
  /\ UNCHANGED << conn, gameRooms, shots >>

(* the timeout set by joinLobby: joinRoom.startGame() *)
StartTimer ==
  /\ startTimers > 0
  /\ startTimers' = startTimers - 1
  /\ SetRoom(startGame(Room))
  /\ reply' = NoReply
  /\ UNCHANGED << conn, currentRoom, gameRooms, shots >>

(* leaveLobby without the removal of the emptied room from the registry *)
LeaveLobbyKeeps(c) ==
  /\ conn[c] = "open" /\ currentRoom[c]
  /\ SetRoom(removePlayer(Room, c))
  /\ gameRooms' = gameRooms
  /\ currentRoom' = [currentRoom EXCEPT ![c] = FALSE]
  /\ reply' = NoReply
  /\ UNCHANGED << conn, startTimers, shots >>

(* case 'leaveLobby' *)
LeaveLobby(c) ==
  /\ conn[c] = "open" /\ currentRoom[c]
  /\ SetRoom(removePlayer(Room, c))
  /\ gameRooms' = (gameRooms /\ Len(players) > 1)
  /\ currentRoom' = [currentRoom EXCEPT ![c] = FALSE]
  /\ reply' = NoReply
  /\ UNCHANGED << conn, startTimers, shots >>

(* ws.on('close'); the closed connection's currentRoom is never read      *)
(* again and is kept as FALSE                                             *)
Close(c) ==
  /\ conn[c] = "open"
  /\ conn' = [conn EXCEPT ![c] = "closed"]
  /\ IF currentRoom[c]
     THEN LET r == removePlayer(Room, c)
          IN /\ SetRoom(IF Len(r.players) # 0 /\ r.gameState.started
                        THEN endGame(r, r.players[1],
                                     [kind |-> "leave", target |-> c,
                                      attacker |-> r.players[1]])
                        ELSE r)
             /\ gameRooms' = (gameRooms /\ Len(r.players) # 0)
     ELSE UNCHANGED << gameRooms, players, pl, gameState, updateInterval, leaked,
                       matchEndTime, rematchVotes, shieldTimers, overs >>
  /\ currentRoom' = [currentRoom EXCEPT ![c] = FALSE]
  /\ reply' = NoReply
  /\ UNCHANGED << startTimers, shots >>

(* a firing of a live interval: this.update() *)
Tick(deltaTime) ==
  /\ updateInterval \/ leaked > 0
  /\ SetRoom(update(Room, deltaTime))
  /\ reply' = NoReply
  /\ UNCHANGED << conn, currentRoom, gameRooms, startTimers, shots >>

(* case 'move' *)
Move(c, dx, dy, deltaTime) ==
  /\ conn[c] = "open"
  /\ IF currentRoom[c] /\ gameState.started /\ c \in DOMAIN pl
     THEN SetRoom(handlePlayerMove(Room, c, dx, dy, deltaTime))
     ELSE UNCHANGED << players, pl, gameState, updateInterval, leaked,
                       matchEndTime, rematchVotes, shieldTimers, overs >>
  /\ reply' = NoReply
  /\ UNCHANGED << conn, currentRoom, gameRooms, startTimers, shots >>

(* case 'shoot'; an accepted shot takes one of the limit shots *)
Shoot(limit, c, targetX, targetY) ==
  /\ conn[c] = "open"
  /\ IF currentRoom[c] /\ gameState.started /\ c \in DOMAIN pl /\ ~pl[c].reloading
     THEN /\ shots < limit
          /\ AxisAligned(pl[c], targetX, targetY)
          /\ pl[c].nextShotType = "laser" =>
                laserExact(Room, c, aimCos(pl[c], targetX, targetY),
                           aimSin(pl[c], targetX, targetY))
          /\ SetRoom(handlePlayerShoot(Room, c, targetX, targetY))
          /\ shots' = shots + 1
     ELSE UNCHANGED << players, pl, gameState, updateInterval, leaked,
                       matchEndTime, rematchVotes, shieldTimers, overs, shots >>
  /\ reply' = NoReply
  /\ UNCHANGED << conn, currentRoom, gameRooms, startTimers >>

(* case 'usePowerup' *)
UsePowerup(c, powerupNum) ==
  /\ conn[c] = "open"
  /\ IF currentRoom[c] /\ gameState.started /\ c \in DOMAIN pl
     THEN LET res == handlePowerup(Room, c, powerupNum)
          IN SetRoom(res.room) /\ reply' = res.result
     ELSE /\ reply' = "powerup:ignored"
          /\ UNCHANGED << players, pl, gameState, updateInterval, leaked,
                          matchEndTime, rematchVotes, shieldTimers, overs >>
  /\ UNCHANGED << conn, currentRoom, gameRooms, startTimers, shots >>

(* the timeout set by the shield powerup *)
ShieldTimer(c) ==
  /\ shieldTimers[c] > 0
  /\ shieldTimers' = [shieldTimers EXCEPT ![c] = @ - 1]
  /\ pl' = IF c \in DOMAIN pl THEN [pl EXCEPT ![c].shield = 0] ELSE pl
  /\ reply' = NoReply
  /\ UNCHANGED << conn, currentRoom, gameRooms, players, gameState, updateInterval,
                  leaked, matchEndTime, rematchVotes, startTimers, overs, shots >>

(* case 'rematchVote' *)
RematchVote(c) ==
  /\ conn[c] = "open"
  /\ IF currentRoom[c]
     THEN LET res == handleRematchVote(Room, c)
          IN SetRoom(res.room) /\ reply' = res.result
     ELSE /\ reply' = "vote:ignored"
          /\ UNCHANGED << players, pl, gameState, updateInterval, leaked,
                          matchEndTime, rematchVotes, shieldTimers, overs >>
  /\ UNCHANGED << conn, currentRoom, gameRooms, startTimers, shots >>

Next ==
  \/ \E c \in Clients : CreateLobby(c) /\ UNCHANGED intent
  \/ \E c \in Clients : JoinLobby(c) /\ UNCHANGED intent
  \/ StartTimer /\ UNCHANGED intent
  \/ \E c \in Clients : LeaveLobby(c) /\ UNCHANGED intent
  \/ \E c \in Clients : Close(c) /\ UNCHANGED intent
  \/ \E deltaTime \in TickDeltas : Tick(deltaTime) /\ UNCHANGED intent
  \/ \E c \in Clients, m \in MoveInputs : Move(c, m[1], m[2], m[3]) /\ UNCHANGED intent
  \/ \E c \in Clients, t \in ShootTargets : Shoot(MaxShots, c, t[1], t[2]) /\ UNCHANGED intent
  \/ \E c \in Clients, n \in PowerupInputs : UsePowerup(c, n) /\ UNCHANGED intent
  \/ \E c \in Clients : ShieldTimer(c) /\ UNCHANGED intent
  \/ \E c \in Clients : RematchVote(c) /\ UNCHANGED intent

Spec == Init /\ [][Next]_vars

(* The duel: both clients stay connected and in the room and hold their  *)
(* positions; the match runs from the late state on.                      *)
NextDuel ==
  \/ \E deltaTime \in TickDeltas : Tick(deltaTime) /\ UNCHANGED intent
  \/ \E c \in Clients, t \in ShootTargets : Shoot(DuelShots, c, t[1], t[2]) /\ UNCHANGED intent
  \/ \E c \in Clients, n \in PowerupInputs : UsePowerup(c, n) /\ UNCHANGED intent
  \/ \E c \in Clients : ShieldTimer(c) /\ UNCHANGED intent
  \/ \E c \in Clients : RematchVote(c) /\ UNCHANGED intent

SpecDuel == InitLateMatch /\ [][NextDuel]_vars

(* the late match with the intent handled last on record: who sent what  *)
Tell(type, c, arg) == intent' = [type |-> type, client |-> c, arg |-> arg]

NextIntent ==
  \/ \E deltaTime \in TickDeltas : Tick(deltaTime) /\ Tell("tick", 0, 0)
  \/ \E c \in Clients, t \in ShootTargets :
        Shoot(MaxShots, c, t[1], t[2]) /\ Tell("shoot", c, 0)
  \/ \E c \in Clients, n \in PowerupInputs : UsePowerup(c, n) /\ Tell("usePowerup", c, n)
  \/ \E c \in Clients : ShieldTimer(c) /\ Tell("timeout", c, 0)
  \/ \E c \in Clients : RematchVote(c) /\ Tell("rematchVote", c, 0)

SpecIntent == InitLateMatch /\ [][NextIntent]_vars

(* the late match with the lobby handlers: an occupant may leave and join *)
(* again while the other one stays                                        *)
NextRejoin ==
  \/ \E c \in Clients : JoinLobby(c) /\ UNCHANGED intent
  \/ StartTimer /\ UNCHANGED intent
  \/ \E c \in Clients : LeaveLobby(c) /\ UNCHANGED intent
  \/ \E deltaTime \in TickDeltas : Tick(deltaTime) /\ UNCHANGED intent
  \/ \E c \in Clients, t \in ShootTargets :
        Shoot(DuelShots, c, t[1], t[2]) /\ UNCHANGED intent

SpecRejoin == InitLateMatch /\ [][NextRejoin]_vars

(* the lobby: three connections create, join, leave and close *)
NextLobby ==
  \/ \E c \in Guests : CreateLobby(c) /\ Tell("createLobby", c, 0)
  \/ \E c \in Guests : JoinLobby(c) /\ Tell("joinLobby", c, 0)
  \/ StartTimer /\ Tell("timeout", 0, 0)
  \/ \E c \in Guests : LeaveLobby(c) /\ Tell("leaveLobby", c, 0)
  \/ \E c \in Guests : Close(c) /\ Tell("close", c, 0)

SpecLobby == InitServer /\ [][NextLobby]_vars

(* the lobby with its timers: a timeout set by joinLobby fires, 1000 ms   *)
(* after it was set, whatever else happens (setTimeout, 982)              *)
StartTimerFires == StartTimer /\ Tell("timeout", 0, 0)

SpecLobbyFair == SpecLobby /\ WF_vars(StartTimerFires)

(* the lobby with rooms created beside the one followed.  Once the code   *)
(* of the room may belong to another room, createLobby and joinLobby are  *)
(* not followed any further: they could lead into that other room.        *)
codeTaken == ~gameRooms /\ \E c \in Guests : conn[c] = "elsewhere"

NextCreate ==
  \/ \E c \in Guests : ~codeTaken /\ CreateLobby(c) /\ Tell("createLobby", c, 0)
  \/ \E c \in Guests, sameCode \in BOOLEAN :
        CreateLobbyBeside(c, sameCode) /\ Tell("createLobby", c, 0)
  \/ \E c \in Guests : ~codeTaken /\ JoinLobby(c) /\ Tell("joinLobby", c, 0)
  \/ StartTimer /\ Tell("timeout", 0, 0)
  \/ \E c \in Guests : LeaveLobby(c) /\ Tell("leaveLobby", c, 0)
  \/ \E c \in Guests : Close(c) /\ Tell("close", c, 0)

SpecCreate == InitServer /\ [][NextCreate]_vars

(* ---------------------- what the clients are sent --------------------- *)
(* the late match with the messages of the handler run last on record;    *)
(* the players move along the row y = 1000, on both sides of the cover    *)
(* in the centre                                                          *)
SightMoves == {<<1, 500, 0, 4>>, <<2, 1270, 0, 4>>, <<2, -1270, 0, 4>>}
SightPowerups == {1, 2}
SightTargets == {<<365, 1000>>, <<0, 1000>>}

(* the projectileCreated message of handlePlayerShoot (570-583): the      *)
(* projectile pushed last, without its owner                              *)
projectileCreated(r, c, targetX, targetY) ==
  LET after == handlePlayerShoot(r, c, targetX, targetY)
      projectile == after.gameState.projectiles[Len(after.gameState.projectiles)]
  IN [ x |-> projectile.x, y |-> projectile.y, vx |-> projectile.vx,
       vy |-> projectile.vy, type |-> projectile.type,
       targetX |-> targetX, targetY |-> targetY ]

TickSends(deltaTime) ==
  /\ Tick(deltaTime)
  /\ intent' = [type |-> "tick", client |-> 0, arg |-> deltaTime,
                sent |-> gameStateMessages(Room, update(Room, deltaTime)),
                outcomes |-> projectileOutcomes(Room, gameState.projectiles, deltaTime)]

NextSight ==
  \/ \E deltaTime \in TickDeltas : TickSends(deltaTime)
  \/ \E m \in SightMoves : Move(m[1], m[2], m[3], m[4]) /\ Tell("move", m[1], m[2])
  \/ \E c \in Clients, t \in SightTargets :
        Shoot(MaxShots, c, t[1], t[2]) /\ Tell("shoot", c, 0)
  \/ \E c \in Clients, n \in SightPowerups : UsePowerup(c, n) /\ Tell("usePowerup", c, n)

SpecSight == InitLateMatch /\ [][NextSight]_vars

(* ------------------- covers that go and come back --------------------- *)
(* the late match in which client 1 walks along the row y = 1000, may     *)
(* blow up the cover in the centre, and client 2 may leave and join again *)
CoverMoves == {<<500, 0, 4>>, <<-200, 0, 4>>}

NextCover ==
  \/ \E deltaTime \in TickDeltas : Tick(deltaTime) /\ Tell("tick", 0, 0)
  \/ \E m \in CoverMoves : Move(1, m[1], m[2], m[3]) /\ Tell("move", 1, m[1])
  \/ UsePowerup(1, 2) /\ Tell("usePowerup", 1, 2)
  \/ \E t \in ShootTargets : Shoot(MaxShots, 1, t[1], t[2]) /\ Tell("shoot", 1, 0)
  \/ LeaveLobby(2) /\ Tell("leaveLobby", 2, 0)
  \/ JoinLobby(2) /\ Tell("joinLobby", 2, 0)
  \/ StartTimer /\ Tell("timeout", 0, 0)

SpecCover == InitLateMatch /\ [][NextCover]_vars

(* ------------------- a shield bought before a rematch ----------------- *)
(* The room after this run of the handlers from the late match: client 1  *)
(* shoots and the tick lands the projectile on client 2 (health 0, match  *)
(* over); client 2 leaves and joins again and the start timeout starts a  *)
(* match with matchEndTime still set; client 1 buys the shield, whose     *)
(* timeout of 10 s is set; both vote for a rematch and the second vote    *)
(* resets the players and starts the next match.                          *)
Rematched ==
  LET over == update(handlePlayerShoot(LateMatch, 1, 365, 1000), 500)
      again == startGame(addPlayer(removePlayer(over, 2), 2))
      shielded == handlePowerup(again, 1, 3).room
  IN handleRematchVote(handleRematchVote(shielded, 1).room, 2).room

InitRematched ==
  /\ conn = [c \in Guests |-> "open"]
  /\ currentRoom = [c \in Guests |-> c \in {1, 2}]
  /\ gameRooms = TRUE
  /\ SetRoomNow(Rematched)
  /\ startTimers = 0
  /\ shots = 0
  /\ reply = NoReply
  /\ intent = NoIntent

(* the match after the rematch: client 2 comes over to x = 530, client 1  *)
(* shoots at it, earns points and may buy the shield again                *)
NextShield ==
  \/ \E deltaTime \in TickDeltas : Tick(deltaTime) /\ Tell("tick", 0, 0)
  \/ \E m \in MoveInputs : Move(2, m[1], m[2], m[3]) /\ Tell("move", 2, 0)
  \/ \E t \in ShootTargets : Shoot(ShieldShots, 1, t[1], t[2]) /\ Tell("shoot", 1, 0)
  \/ UsePowerup(1, 3) /\ Tell("usePowerup", 1, 3)
  \/ \E c \in Clients : ShieldTimer(c) /\ Tell("timeout", c, 0)

SpecShield == InitRematched /\ [][NextShield]_vars

(* --------------- hitPlayer and explode, applied on their own ----------- *)
(* a running match in which client 2 has any health and may hold a shield *)
(* (whole or partly used up), the function applied once to it            *)
Healths == 1..maxHealth
Shields == {0, 5, shieldAbsorption}
Damages == 0..explosiveDamage
ExplosionDistances == 0..MaxDistance

Shielded(r, c, shield) ==
  IF shield = 0 THEN r
  ELSE [r EXCEPT !.pl[c].shield = shield,
                 !.pl[c].usedPowerups = {3},
                 !.pl[c].points = @ - powerupCost,
                 !.shieldTimers[c] = 1]

InitDamage ==
  /\ conn = [c \in Guests |-> "open"]
  /\ currentRoom = [c \in Guests |-> c \in {1, 2}]
  /\ gameRooms = TRUE
  /\ \E health \in Healths, shield \in Shields :
        SetRoomNow(Shielded([LateMatch EXCEPT !.pl[2].health = health,
                                              !.pl[1].points = maxHealth - health],
                            2, shield))
  /\ startTimers = 0
  /\ shots = 0
  /\ reply = NoReply
  /\ intent = NoIntent

(* a call of hitPlayer, as made by update, shootLaser and explode *)
Hit(playerId, damage, attackerId) ==
  /\ intent = NoIntent
  /\ SetRoom(hitPlayer(Room, playerId, damage, attackerId))
  /\ intent' = [type |-> "hitPlayer", client |-> attackerId, target |-> playerId,
                arg |-> damage]
  /\ reply' = NoReply
  /\ UNCHANGED << conn, currentRoom, gameRooms, startTimers, shots >>

(* a call of explode, as made by update *)
Explode(x, y, ownerId) ==
  /\ intent = NoIntent
  /\ SetRoom(explode(Room, x, y, ownerId))
  /\ reply' = NoReply
  /\ UNCHANGED << conn, currentRoom, gameRooms, startTimers, shots >>

NextDamage ==
  \/ \E playerId \in Clients, damage \in Damages, attackerId \in Clients :
        Hit(playerId, damage, attackerId)
  \/ \E d \in ExplosionDistances, ownerId \in Clients :
        Explode(pl[2].x - d, pl[2].y, ownerId) /\ Tell("explode", ownerId, d)

SpecDamage == InitDamage /\ [][NextDamage]_vars

(* ------------------------------ properties ---------------------------- *)
(* the step handled a rematchVote of a client whose currentRoom is set *)
VoteHandled == reply' \in {"vote:ok", "vote:error"}

(* the step handled a usePowerup that handlePowerup answered without success *)
PowerupRefused == reply' \in {"powerup:used", "powerup:points", "powerup:failed"}

(* what a match starts from: full health, no points, nothing in flight,   *)
(* every cover standing                                                   *)
MatchStartState ==
  /\ \A c \in DOMAIN pl : pl[c].health = maxHealth /\ pl[c].points = 0
  /\ gameState.projectiles = <<>>
  /\ gameState.covers = InitialCovers

(* C1: once a match has ended with both occupants still in the room, a    *)
(* rematchVote is accepted; after it either the room waits with one vote  *)
(* recorded, or (second distinct vote) the match state is reset and the   *)
(* room is Active again.                                                  *)
C1_RematchAfterEnd ==
  [][ (~gameState.started /\ matchEndTime /\ Len(players) = 2 /\ VoteHandled)
        => /\ reply' = "vote:ok"
           /\ \/ Cardinality(rematchVotes') = 1 /\ ~gameState'.started
              \/ gameState'.started /\ MatchStartState' ]_vars

(* C2: a rematchVote handled while a match is running is rejected: the    *)
(* vote set, the players and the game state stay as they are.             *)
C2_VoteWhileActiveRejected ==
  [][ (gameState.started /\ updateInterval /\ Len(players) = 2 /\ VoteHandled)
        => /\ reply' = "vote:error"
           /\ rematchVotes' = rematchVotes
           /\ pl' = pl
           /\ gameState' = gameState ]_vars

(* C3: a vote resets the match state (and then restarts the match, which  *)
(* empties the vote set, or leaves two votes recorded) only in a room     *)
(* with two occupants whose recorded votes are those of occupants.        *)
C3_ResetNeedsBothOccupants ==
  [][ (reply' = "vote:ok" /\ (rematchVotes' = {} \/ Cardinality(rematchVotes') = 2))
        => (Len(players) = 2 /\ rematchVotes \subseteq Range(players)) ]_vars

(* C4: at most one gameOver is broadcast between a gameStart and the next *)
C4_OneGameOverPerMatch == Len(overs) <= 1

(* C5: the winner of a gameOver sent for a kill is the attacker when the  *)
(* attacker is the other occupant and survives; otherwise no occupant is  *)
(* named.  In particular the winner never has health 0.                   *)
C5_WinnerSurvives ==
  \A i \in 1..Len(overs) :
     LET o == overs[i]
     IN o.cause.kind = "hit" =>
          IF /\ o.cause.attacker # o.cause.target
             /\ o.cause.attacker \in DOMAIN o.health
             /\ o.health[o.cause.attacker] > 0
          THEN o.winner = o.cause.attacker
          ELSE o.winner \notin Clients

(* C6: a step in which an occupant leaves a running match ends the match  *)
(* and announces the remaining occupant as winner.                        *)
C6_LeaveEndsMatch ==
  [][ (gameState.started /\ Len(players) = 2 /\ Len(players') = 1)
        => /\ ~gameState'.started
           /\ overs' # <<>>
           /\ overs'[Len(overs')].winner = players'[1] ]_vars

(* C7: an update interval is live only while a match is running in a      *)
(* registered room with two occupants.                                    *)
C7_NoTickOutsideMatch ==
  (updateInterval \/ leaked > 0) => (gameRooms /\ gameState.started /\ Len(players) = 2)

(* C8: every occupant's health is between 0 and maxHealth *)
C8_HealthInRange ==
  \A c \in DOMAIN pl : 0 <= pl[c].health /\ pl[c].health <= maxHealth

(* a laser hit of 15 on a player with 5 health left: the attacker, who    *)
(* paid 20 of 95 points for the laser, is paid 15; the target is at 0     *)
C8_Witness ==
  \E c \in DOMAIN pl, a \in DOMAIN pl :
     /\ a # c
     /\ pl[c].health = 0
     /\ pl[a].usedPowerups = {1}
     /\ pl[a].points = 19 * projectileDamage - powerupCost + laserDamage

(* C9: no occupant of a started room has health 0 *)
C9_ActiveOccupantsAlive ==
  gameState.started => \A c \in DOMAIN pl : pl[c].health > 0

(* C10: a usePowerup that does not succeed leaves every player's points,  *)
(* used set, shield and next-shot modifier as they were.                  *)
C10_RefusedPowerupChangesNothing ==
  [][ PowerupRefused
        => \A c \in DOMAIN pl :
              /\ pl'[c].points = pl[c].points
              /\ pl'[c].usedPowerups = pl[c].usedPowerups
              /\ pl'[c].shield = pl[c].shield
              /\ pl'[c].nextShotType = pl[c].nextShotType ]_vars

(* C13: no player ever has negative points                                *)
C13_PointsNeverNegative ==
  \A c \in DOMAIN pl : pl[c].points >= 0

(* a player who has paid for powerups and is left with less than the cost *)
C13_Witness ==
  /\ reply = "powerup:ok"
  /\ \E c \in DOMAIN pl :
        /\ pl[c].usedPowerups # {}
        /\ pl[c].points >= 0
        /\ pl[c].points < powerupCost

(* what a handler of the room can change, the reply and the record of the *)
(* intent apart                                                           *)
serverState == << conn, currentRoom, gameRooms, players, pl, gameState, updateInterval,
                  leaked, matchEndTime, rematchVotes, startTimers, shieldTimers, overs,
                  shots >>

errorSent == reply' \in {"join:error", "powerup:used", "powerup:points"}

(* an intent that is rejected: a shoot while reloading or outside a       *)
(* started match, a usePowerup that does not succeed, a rematchVote that  *)
(* is not counted                                                         *)
rejectedIntent ==
  \/ /\ intent'.type = "shoot"
     /\ LET c == intent'.client
        IN ~(currentRoom[c] /\ gameState.started /\ c \in DOMAIN pl /\ ~pl[c].reloading)
  \/ intent'.type = "usePowerup" /\ reply' # "powerup:ok"
  \/ intent'.type = "rematchVote" /\ reply' # "vote:ok"

(* C12: every rejected intent is answered with an error message to the    *)
(* connection that sent it                                                *)
C12_RejectedIntentAnswered ==
  [][ rejectedIntent => errorSent ]_vars

(* C14: a call of hitPlayer with damage D on a target with shield S and   *)
(* health H leaves the shield at max(0, S - D) and the health at          *)
(* max(0, H - max(0, D - S)): no health is lost while D <= S.             *)
C14_ShieldBeforeHealth ==
  [][ (intent'.type = "hitPlayer" /\ intent'.target \in DOMAIN pl)
        => LET t == intent'.target
               D == intent'.arg
               S == pl[t].shield
           IN /\ pl'[t].shield = Max(0, S - D)
              /\ pl'[t].health = Max(0, pl[t].health - Max(0, D - S))
              /\ D <= S => pl'[t].health = pl[t].health ]_vars

(* a hit of more than what is left of a shield: the shield is gone and    *)
(* the rest of the damage is taken from the health                        *)
C14_Witness ==
  /\ intent.type = "hitPlayer"
  /\ intent.target = 2
  /\ intent.arg = laserDamage
  /\ pl[2].shield = 0
  /\ pl[2].usedPowerups = {3}
  /\ pl[2].health = maxHealth - (laserDamage - 5)

(* C15: a call of hitPlayer by the other occupant adds to the attacker's  *)
(* points exactly what the target's health goes down by; a hit on oneself *)
(* leaves the points as they were.                                        *)
C15_PointsEqualHealthLost ==
  [][ intent'.type = "hitPlayer"
        => LET t == intent'.target
               a == intent'.client
           IN IF a # t
              THEN pl'[a].points - pl[a].points = pl[t].health - pl'[t].health
              ELSE pl'[a].points = pl[a].points ]_vars

(* floor(20 * (1 - d / 100)) in exact arithmetic, 0 from the radius on    *)
exactExplosionDamage(d) ==
  IF d < explosiveRadius
  THEN (explosiveDamage * (explosiveRadius - d)) \div explosiveRadius
  ELSE 0

(* C16: an explosion at integer distance d from an occupant applies the   *)
(* damage floor(20 * (1 - d/100)), 0 for d >= 100, to it (shield first),  *)
(* and a damage of 0 changes no player and ends no match.                 *)
C16_ExplosionDamageByDistance ==
  [][ intent'.type = "explode"
        => LET damage == exactExplosionDamage(intent'.arg)
               S == pl[2].shield
           IN /\ pl'[2].shield = Max(0, S - damage)
              /\ pl'[2].health = Max(0, pl[2].health - Max(0, damage - S))
              /\ damage = 0 => UNCHANGED << pl, overs >> ]_vars

(* C17: two projectiles of one owner in flight were not fired within the  *)
(* reload time of each other (age is the time since createdAt)            *)
C17_ShotsApartByReload ==
  \A i, j \in DOMAIN gameState.projectiles :
     LET p == gameState.projectiles[i]
         q == gameState.projectiles[j]
     IN (i < j /\ p.ownerId = q.ownerId) => p.age - q.age >= reloadTime

(* C18: the room never holds more than two occupants, and a joinLobby by  *)
(* a connection already in a room, for a code that is not registered or   *)
(* for a full room is answered with an error and leaves the occupants,    *)
(* the registry and every connection's room as they were.                 *)
C18_RoomOfTwo ==
  /\ [](Len(players) <= 2)
  /\ [][ (intent'.type = "joinLobby"
            /\ (currentRoom[intent'.client] \/ ~gameRooms \/ Len(players) >= 2))
           => (reply' = "join:error" /\ UNCHANGED << players, pl, gameRooms, currentRoom >>)
       ]_vars

(* a third connection was turned away from a room of two *)
C18_Witness ==
  /\ intent.type = "joinLobby"
  /\ reply = "join:error"
  /\ gameRooms
  /\ Len(players) = 2
  /\ ~currentRoom[intent.client]

(* C20: after every leaveLobby and every close, a registered room has at  *)
(* least one occupant, and the room whose last occupant has gone is not   *)
(* registered, whether its match was never started, running or over.      *)
C20_NoEmptyRoomRegistered ==
  /\ [](gameRooms => Len(players) > 0)
  /\ [][ (intent'.type \in {"leaveLobby", "close"} /\ Len(players') = 0) => ~gameRooms' ]_vars

(* the last occupant has left a room whose match was over *)
C20_Witness ==
  /\ intent.type \in {"leaveLobby", "close"}
  /\ Len(players) = 0
  /\ ~gameRooms
  /\ matchEndTime
  /\ ~gameState.started

(* C19: a room that has occupants is in the registry under its code: no   *)
(* createLobby takes the code of a registered room away from it           *)
C19_RegisteredWhileOccupied ==
  Len(players) > 0 => gameRooms

(* C21: once a join has filled the room and set the start timeout, the    *)
(* match is started if the two stay, with no message from a client; and   *)
(* the timeout starts nothing unless the room holds exactly two when it   *)
(* fires.                                                                 *)
C21_DelayedStart ==
  /\ (startTimers > 0 /\ Len(players) = 2) ~> (gameState.started \/ Len(players) # 2)
  /\ [][ (intent'.type = "timeout"
            /\ << gameState, updateInterval, leaked, rematchVotes, overs >>' #
               << gameState, updateInterval, leaked, rematchVotes, overs >>)
           => (Len(players) = 2 /\ gameState'.started) ]_vars

(* the timeout has fired on a room of two that was not started before *)
C21_Witness ==
  /\ intent.type = "timeout"
  /\ Len(players) = 2
  /\ gameState.started
  /\ updateInterval
  /\ startTimers = 0
  /\ ~matchEndTime

(* C22: in a tick of a room of two whose line of sight is blocked, the    *)
(* gameState message to each player holds for the other player the marker *)
(* visible: false and nothing else, and for the receiver its own position, *)
(* health, shield, reload state, points and used powerups.                *)
C22_HiddenEnemyEntry ==
  [][ (intent'.type = "tick" /\ Len(players) = 2)
        => \A id \in DOMAIN pl' :
             LET entries == intent'.sent[id].players
             IN /\ \A o \in DOMAIN pl' \ {id} :
                     ~visibleToEnemy(Room) => entries[o] = [visible |-> FALSE]
                /\ DOMAIN entries[id] = {"x", "y", "health", "shield", "reloading",
                                         "points", "usedPowerups", "visible"}
                /\ entries[id].x = pl'[id].x /\ entries[id].y = pl'[id].y
                /\ entries[id].health = pl'[id].health
                /\ entries[id].shield = pl'[id].shield ]_vars

(* a tick with the cover in the centre between the two players: player 1  *)
(* is sent the marker for player 2                                        *)
C22_Witness ==
  /\ intent.type = "tick"
  /\ Len(players) = 2
  /\ ~hasLineOfSight(Room, gameState.covers)
  /\ intent.sent[1].players[2] = [visible |-> FALSE]
  /\ intent.sent[1].players[1].visible

(* C23: a shield timeout that fires while a later one of the same player  *)
(* is still to come was set before the player's reset (a shield is bought *)
(* once between resets): it leaves the player's shield as it is.          *)
C23_StaleShieldTimer ==
  [][ \A c \in DOMAIN pl :
        (intent'.type = "timeout" /\ intent'.client = c /\ shieldTimers[c] > 1)
           => pl'[c].shield = pl[c].shield ]_vars

(* C24: the modifier a player has bought stays until that player's next   *)
(* accepted shot, which clears it: nothing else changes it, so each       *)
(* activation is followed by a shot of its own kind.                      *)
C24_ModifierKeptUntilShot ==
  [][ \A c \in DOMAIN pl :
        (pl[c].nextShotType # "none" /\ pl'[c].nextShotType # pl[c].nextShotType)
           => (intent'.type = "shoot" /\ intent'.client = c
               /\ pl'[c].nextShotType = "none") ]_vars

(* a projectile beyond the walls of the arena *)
outsideArena(proj) ==
  proj.x < 0 \/ proj.x > arenaWidth \/ proj.y < 0 \/ proj.y > arenaHeight

staysInFlight(outcome) == outcome.keep

(* C25: in every tick a projectile for which explode is called is an      *)
(* explosive one and is dropped from the list in that tick, so it cannot  *)
(* explode again; one that has left the arena is dropped without explode; *)
(* the list after the tick holds exactly the projectiles that stay.       *)
C25_ExplodesOnceAndGoes ==
  [][ intent'.type = "tick"
        => LET outcomes == intent'.outcomes
               staying == SelectSeq(outcomes, staysInFlight)
           IN /\ \A i \in DOMAIN outcomes :
                   /\ outcomes[i].exploded
                        => (outcomes[i].proj.type = "explosive" /\ ~outcomes[i].keep)
                   /\ outsideArena(outcomes[i].proj)
                        => (~outcomes[i].keep /\ ~outcomes[i].exploded)
              /\ gameState'.projectiles = [i \in DOMAIN staying |-> staying[i].proj] ]_vars

(* an explosive projectile has gone off in the cover in the centre, which *)
(* is gone with it: no projectile is left in flight                       *)
C25_Witness ==
  /\ intent.type = "tick"
  /\ \E i \in DOMAIN intent.outcomes :
        /\ intent.outcomes[i].exploded
        /\ intent.outcomes[i].proj.age <= explosionDelay + 100
  /\ "center" \notin gameState.covers
  /\ gameState.projectiles = <<>>

(* C26: in a started match the square of every player lies within the     *)
(* arena and overlaps no cover of the room                                *)
C26_PlayersClearOfCovers ==
  gameState.started
    => \A c \in DOMAIN pl :
         /\ pl[c].x - playerSize \div 2 >= 0
         /\ pl[c].x + playerSize \div 2 <= arenaWidth
         /\ pl[c].y - playerSize \div 2 >= 0
         /\ pl[c].y + playerSize \div 2 <= arenaHeight
         /\ ~blocked(Room, pl[c].x, pl[c].y)

(* C27: in a tick of a room of two, the gameState message to a player      *)
(* hides the other player exactly when the line between the two is blocked *)
(* by a cover of the cover list in that same message                      *)
C27_SightFromSnapshotCovers ==
  [][ (intent'.type = "tick" /\ Len(players) = 2)
        => \A id \in DOMAIN pl' : \A o \in DOMAIN pl' \ {id} :
             (intent'.sent[id].players[o] = hiddenEntry)
               = ~hasLineOfSight(Room', intent'.sent[id].covers) ]_vars

(* C28: when the start timeout starts a match, the two players stand at    *)
(* the two start positions with full health, no points, no shield, no used *)
(* powerup and not reloading, nothing is in flight and every cover stands  *)
C28_StartsFromStartState ==
  [][ (intent'.type = "timeout" /\ Len(players) = 2 /\ gameState'.started)
        => /\ \A i \in 1..2 :
                LET player == pl'[players'[i]]
                IN /\ player.x = startPositions[i].x
                   /\ player.y = startPositions[i].y
                   /\ player.health = maxHealth
                   /\ player.points = 0
                   /\ player.shield = 0
                   /\ player.usedPowerups = {}
                   /\ ~player.reloading
           /\ gameState'.projectiles = <<>>
           /\ gameState'.covers = InitialCovers ]_vars

(* C29: a tick in which the match ends (a gameOver message is broadcast)   *)
(* sends no gameState message to any player                               *)
C29_NothingAfterGameOver ==
  [][ (intent'.type = "tick" /\ Len(overs') > Len(overs))
        => DOMAIN intent'.sent = {} ]_vars

(* the room with player o standing at x, at the given health: what the    *)
(* room would be had o walked and been hit otherwise                      *)
HiddenXs == {1300, 1800}
HiddenHealths == {5, 100}

hiddenAt(r, o, x, health) ==
  [r EXCEPT !.pl = [r.pl EXCEPT ![o] = [r.pl[o] EXCEPT !.x = x, !.health = health]]]

(* C30: in a match whose line of sight is blocked, the projectileCreated   *)
(* message that a shot of the unseen player o sends to the other player is *)
(* the same wherever behind the cover o stands and whatever o's health is  *)
C30_HiddenShooterUnseen ==
  (gameState.started /\ Len(players) = 2 /\ ~visibleToEnemy(Room))
    => \A o \in DOMAIN pl : \A x \in HiddenXs, health \in HiddenHealths :
         LET other == hiddenAt(Room, o, x, health)
         IN (/\ ~visibleToEnemy(other)
             /\ ~blocked(Room, x, pl[o].y)
             /\ ~pl[o].reloading
             /\ pl[o].nextShotType # "laser")
              => \A t \in SightTargets :
                   projectileCreated(Room, o, t[1], t[2])
                     = projectileCreated(other, o, t[1], t[2])

====
